---- MODULE Spec2Model ----
(***************************************************************************)
(* StockFlow case study (Casestudy.py): the corrected create_product       *)
(* endpoint of Part 1 running against the store of Part 2, and the         *)
(* low-stock alert endpoint get_low_stock of Part 3.                       *)
(*                                                                         *)
(* Spec       several create_product requests run concurrently; the steps  *)
(*            that touch the store (SKU lookup, product INSERT at flush,   *)
(*            inventory INSERT and COMMIT) interleave.                     *)
(* AlertSpec  get_low_stock evaluated over every store content drawn from  *)
(*            the bounded universes below.                                 *)
(*                                                                         *)
(* create_product builds Product(name, sku, price) and never names a       *)
(* company, while products.company_id is NOT NULL and the key of the       *)
(* table is (company_id, sku). A row therefore gets the company of the     *)
(* caller (tenant); the endpoint itself never reads it.                    *)
(*                                                                         *)
(* get_daily_sales_rate is called but not defined in the repository: its   *)
(* results are inputs of get_low_stock, drawn from Velocities as exact     *)
(* fractions n / d.                                                        *)
(***************************************************************************)
EXTENDS Integers, Sequences, FiniteSets, TLC

VARIABLES
    products,           \* committed rows of table products
    inventory,          \* committed rows of table inventory
    supplier_products,  \* rows of table supplier_products
    sales,              \* rows of the sales table read by get_low_stock
    next_product_id,    \* products.product_id SERIAL sequence
    pc,                 \* per request: position inside create_product
    tenant,             \* per request: company the caller belongs to
    data,               \* per request: request.json
    pending,            \* per request: product row flushed but not committed
    response,           \* per request: what create_product returned
    alert_response      \* what the last get_low_stock call returned

vars == <<products, inventory, supplier_products, sales, next_product_id,
          pc, tenant, data, pending, response, alert_response>>

storeVars == <<products, inventory, supplier_products, sales, next_product_id>>
requestVars == <<pc, tenant, data, pending, response>>

(***************************************************************************)
(* Bounds and universes                                                    *)
(***************************************************************************)
NumRequests == 2
Requests == 1..NumRequests

Companies == {1, 2}
Warehouses == {1, 2}             \* rows of table warehouses
Suppliers == {1, 2}              \* rows of table suppliers

Names == {"Widget"}
Skus == {"A", "B"}
PriceInputs == {"19.99", "abc"}
WarehouseInputs == {1, 9}         \* 9: a warehouse_id with no row
QuantityInputs == {-1, 5}

NoResponse == [status |-> 0]

\* Universes of the store contents get_low_stock is evaluated over
MaxRows == 5                     \* inventory, sales and supplier_products rows
AlertProducts == {1, 2}
QueryCompanies == Companies \cup {3}   \* 3: a company_id with no row
Quantities == {5, 100}
SaleAges == {30, 31}             \* days between the sale and the call
Velocities == {<<0, 1>>, <<3, 2>>, <<10, 1>>}   \* units per day, as n / d

(***************************************************************************)
(* Part 1: create_product (corrected version)                              *)
(***************************************************************************)
required_fields == <<"name", "sku", "price", "warehouse_id">>

FieldValues(f) ==
    CASE f = "name" -> Names
      [] f = "sku" -> Skus
      [] f = "price" -> PriceInputs
      [] f = "warehouse_id" -> WarehouseInputs
      [] f = "initial_quantity" -> QuantityInputs

\* A JSON field is either absent from the object or present with a value.
Present(f) == {f :> v : v \in FieldValues(f)}
Opt(f) == {<<>>} \cup Present(f)

\* Request bodies that carry every required field.
CompletePayloads ==
    {a @@ b @@ c @@ d @@ e :
        a \in Present("name"), b \in Present("sku"), c \in Present("price"),
        d \in Present("warehouse_id"), e \in Opt("initial_quantity")}

\* A body that is wrong in every other way too: its SKU is one other
\* requests create, its price does not parse, its warehouse does not exist
\* and its quantity is negative.
WorstPayload ==
    [name |-> "Widget", sku |-> "A", price |-> "abc",
     warehouse_id |-> 9, initial_quantity |-> -1]

Without(d, D) == [f \in (DOMAIN d) \ D |-> d[f]]

\* Request bodies with one or more required fields left out.
IncompletePayloads ==
    {Without(WorstPayload, D) :
        D \in (SUBSET {"name", "sku", "price", "warehouse_id"}) \ {{}}}

\* request.json or {}
Payloads == CompletePayloads \cup IncompletePayloads

\* for field in required_fields: if field not in data -> that field
MissingFrom(d, i) == required_fields[i] \notin DOMAIN d

\* Variant: the loop keeps going and reports the last missing field.
LastMissing(d) ==
    IF \E i \in 1..Len(required_fields) : MissingFrom(d, i)
    THEN required_fields[CHOOSE i \in 1..Len(required_fields) :
            /\ MissingFrom(d, i)
            /\ \A j \in (i + 1)..Len(required_fields) : ~MissingFrom(d, j)]
    ELSE "none"

FirstMissing(d) ==
    IF \E i \in 1..Len(required_fields) : MissingFrom(d, i)
    THEN required_fields[CHOOSE i \in 1..Len(required_fields) :
            /\ MissingFrom(d, i)
            /\ \A j \in 1..(i - 1) : ~MissingFrom(d, j)]
    ELSE "none"

RequiredError(f) ==
    CASE f = "name" -> "name is required"
      [] f = "sku" -> "sku is required"
      [] f = "price" -> "price is required"
      [] f = "warehouse_id" -> "warehouse_id is required"

\* Product.query.filter_by(sku=data['sku']).first()
SkuExists(rows, company, sku) == \E p \in rows : p.sku = sku

\* Decimal(str(data['price'])): the value in cents, or -1 when the
\* constructor raises
DecimalOf(s) ==
    CASE s = "19.99" -> 1999
      [] s = "abc" -> -1

InvalidPrice(s) == DecimalOf(s) < 0

\* data.get('initial_quantity', 0)
QuantityOf(d) ==
    IF "initial_quantity" \in DOMAIN d THEN d["initial_quantity"] ELSE 0

\* Variant: the comparison is off by one.
QuantityRejectedBelowMinusOne(q) == q < -1

\* if quantity < 0
QuantityRejected(q) == q < 0

Error(status, msg) == [status |-> status, error |-> msg]

\* Lines 75-93: everything create_product decides before it opens the
\* transaction, with the SKU lookup reading the committed rows.
Validate(rows, company, d) ==
    IF FirstMissing(d) # "none"
        THEN Error(400, RequiredError(FirstMissing(d)))
    ELSE IF SkuExists(rows, company, d["sku"])
        THEN Error(409, "SKU must be unique")
    ELSE IF InvalidPrice(d["price"])
        THEN Error(400, "Invalid price format")
    ELSE IF QuantityRejected(QuantityOf(d))
        THEN Error(400, "Initial quantity cannot be negative")
    ELSE NoResponse

\* Variant: table products without its UNIQUE constraint.
NoUniqueConstraint(rows, row) == FALSE

\* UNIQUE (company_id, sku) of table products
UniqueViolation(rows, row) ==
    \E p \in rows : p.company_id = row.company_id /\ p.sku = row.sku

\* warehouse_id INT REFERENCES warehouses(warehouse_id), CHECK (quantity >= 0)
InventoryViolation(row) ==
    \/ row.warehouse_id \notin Warehouses
    \/ row.quantity < 0

ProductRow(r) ==
    [id |-> next_product_id,
     company_id |-> tenant[r],
     sku |-> data[r]["sku"],
     product_name |-> data[r]["name"],
     price |-> DecimalOf(data[r]["price"])]

InventoryRow(r, p) ==
    [product_id |-> p.id,
     warehouse_id |-> data[r]["warehouse_id"],
     quantity |-> QuantityOf(data[r])]

\* The request arrives and runs up to the point where the transaction opens.
Receive(r) ==
    /\ pc[r] = "idle"
    /\ \E c \in Companies, d \in Payloads :
        /\ tenant' = [tenant EXCEPT ![r] = c]
        /\ data' = [data EXCEPT ![r] = d]
        /\ LET v == Validate(products, c, d) IN
            /\ response' = [response EXCEPT ![r] = v]
            /\ pc' = [pc EXCEPT ![r] = IF v = NoResponse THEN "begin" ELSE "done"]
    /\ UNCHANGED <<storeVars, pending, alert_response>>

\* with db.session.begin(): db.session.add(product); db.session.flush()
\* The INSERT waits while another open transaction holds the same key.
Flush(r) ==
    /\ pc[r] = "begin"
    /\ LET row == ProductRow(r) IN
        /\ \A o \in Requests \ {r} : ~UniqueViolation(pending[o], row)
        /\ next_product_id' = next_product_id + 1
        /\ IF UniqueViolation(products, row)
            THEN /\ pending' = pending
                 /\ response' = [response EXCEPT ![r] =
                        Error(500, "Database error while creating product")]
                 /\ pc' = [pc EXCEPT ![r] = "done"]
            ELSE /\ pending' = [pending EXCEPT ![r] = {row}]
                 /\ response' = response
                 /\ pc' = [pc EXCEPT ![r] = "flushed"]
    /\ UNCHANGED <<products, inventory, supplier_products, sales,
                   tenant, data, alert_response>>

\* Variant: the product is committed on its own, as in the endpoint before
\* the fix (two separate commits).
CommittedSeparately(r, ok) == pending[r]

\* What the transaction makes visible when the block is left: both rows on
\* commit, nothing on rollback.
CommittedProducts(r, ok) == IF ok THEN pending[r] ELSE {}

\* db.session.add(inventory), leaving the with block (COMMIT), or the
\* IntegrityError handler (ROLLBACK, 500)
Commit(r) ==
    /\ pc[r] = "flushed"
    /\ LET p == CHOOSE x \in pending[r] : TRUE
           inv == InventoryRow(r, p)
           ok == ~InventoryViolation(inv)
       IN
        /\ products' = products \cup CommittedProducts(r, ok)
        /\ inventory' = IF ok THEN inventory \cup {inv} ELSE inventory
        /\ response' = [response EXCEPT ![r] =
                IF ok
                THEN [status |-> 201,
                      message |-> "Product created successfully",
                      product_id |-> p.id]
                ELSE Error(500, "Database error while creating product")]
    /\ pending' = [pending EXCEPT ![r] = {}]
    /\ pc' = [pc EXCEPT ![r] = "done"]
    /\ UNCHANGED <<supplier_products, sales, next_product_id,
                   tenant, data, alert_response>>

create_product(r) == Receive(r) \/ Flush(r) \/ Commit(r)

Init ==
    /\ products = {}
    /\ inventory = {}
    /\ supplier_products = {}
    /\ sales = {}
    /\ next_product_id = 1
    /\ pc = [r \in Requests |-> "idle"]
    /\ tenant = [r \in Requests |-> 1]
    /\ data = [r \in Requests |-> <<>>]
    /\ pending = [r \in Requests |-> {}]
    /\ response = [r \in Requests |-> NoResponse]
    /\ alert_response = NoResponse

Next == \E r \in Requests : create_product(r)

Spec == Init /\ [][Next]_vars

(***************************************************************************)
(* Part 3: get_low_stock                                                   *)
(***************************************************************************)
\* last_month = datetime.now() - timedelta(days=30)
RecentDays == 30

\* Product.low_stock_threshold, product_name and sku of the catalogue rows
ThresholdOf(id) == IF id = 1 THEN 100 ELSE 5
SkuOf(id) == IF id = 1 THEN "A" ELSE "B"
NameOf(id) == IF id = 1 THEN "Widget A" ELSE "Widget B"

CatalogRow(id, company) ==
    [id |-> id, company_id |-> company, sku |-> SkuOf(id),
     product_name |-> NameOf(id), low_stock_threshold |-> ThresholdOf(id)]

InventoryRows ==
    [product_id : AlertProducts, warehouse_id : Warehouses, quantity : Quantities]
SaleRows ==
    [product_id : AlertProducts, warehouse_id : Warehouses, days_ago : SaleAges]
LinkRows == [supplier_id : Suppliers, product_id : AlertProducts]

UpTo(S, n) == {T \in SUBSET S : Cardinality(T) <= n}

\* PRIMARY KEY (product_id, warehouse_id) of table inventory
InventoryKeyed(rows) ==
    \A i, j \in rows :
        i.product_id = j.product_id /\ i.warehouse_id = j.warehouse_id => i = j

\* Variant: the tenant filter is left out of the query.
AnyCompany(p, company) == TRUE

\* Product.company_id == company_id
CompanyMatches(p, company) == p.company_id = company

\* Inventory.quantity <= Product.low_stock_threshold
LowStock(i, p) == i.quantity <= p.low_stock_threshold

\* Variant: LEFT OUTER JOIN; a product without supplier keeps one row whose
\* supplier is null (0).
OuterJoinedSuppliers(p) ==
    LET S == {l.supplier_id : l \in {x \in supplier_products :
                x.product_id = p.id /\ x.supplier_id \in Suppliers}}
    IN IF S = {} THEN {0} ELSE S

\* .join(SupplierProduct, SupplierProduct.product_id == Product.id)
\* .join(Supplier, Supplier.id == SupplierProduct.supplier_id)
JoinedSuppliers(p) ==
    {l.supplier_id : l \in {x \in supplier_products :
        x.product_id = p.id /\ x.supplier_id \in Suppliers}}

\* The rows of query.all(): one per (product, inventory, warehouse, supplier)
\* combination that the joins and the filter let through.
QueryRows(company) ==
    UNION {
        {[product |-> p, inventory |-> i, supplier |-> s] :
            i \in {x \in inventory :
                    /\ x.product_id = p.id
                    /\ x.warehouse_id \in Warehouses
                    /\ LowStock(x, p)},
            s \in JoinedSuppliers(p)} :
        p \in {x \in products : CompanyMatches(x, company)}}

\* Sale.query.filter(Sale.product_id == product.id,
\*     Sale.warehouse_id == warehouse.id, Sale.date >= last_month).first()
has_sales(product_id, warehouse_id) ==
    \E s \in sales :
        /\ s.product_id = product_id
        /\ s.warehouse_id = warehouse_id
        /\ s.days_ago <= RecentDays

\* Variant: the quotient is rounded up instead of truncated.
DaysLeftRoundedUp(quantity, daily_velocity) ==
    IF daily_velocity[1] > 0
    THEN (quantity * daily_velocity[2] + daily_velocity[1] - 1)
            \div daily_velocity[1]
    ELSE 99

\* int(inventory.quantity / daily_velocity) if daily_velocity > 0 else 99
\* with daily_velocity = n / d, d > 0
days_left(quantity, daily_velocity) ==
    IF daily_velocity[1] > 0
    THEN (quantity * daily_velocity[2]) \div daily_velocity[1]
    ELSE 99

KeyOf(row) == <<row.product.id, row.inventory.warehouse_id>>

Kept(row) == has_sales(row.product.id, row.inventory.warehouse_id)

\* alerts.append({...})
Alert(row, rate) ==
    [product_id |-> row.product.id,
     product_name |-> row.product.product_name,
     sku |-> row.product.sku,
     warehouse_id |-> row.inventory.warehouse_id,
     current_stock |-> row.inventory.quantity,
     threshold |-> row.product.low_stock_threshold,
     days_until_stockout |-> days_left(row.inventory.quantity, rate[KeyOf(row)]),
     supplier |-> [id |-> row.supplier]]

\* Every order in which query.all() may return the rows (no ORDER BY).
Orderings(S) ==
    {q \in [1..Cardinality(S) -> S] :
        \A a, b \in 1..Cardinality(S) : a # b => q[a] # q[b]}

\* The loop over query.all(): rows without a recent sale are skipped.
Alerts(order, rate) ==
    LET kept == SelectSeq(order, Kept)
    IN [k \in 1..Len(kept) |-> Alert(kept[k], rate)]

\* return {"alerts": alerts, "total_alerts": len(alerts)}, 200
AlertBody(alerts) == [alerts |-> alerts, total_alerts |-> Len(alerts)]

\* One call. get_daily_sales_rate is called for the pairs that pass the
\* sales check; whatever it returns for them is recorded next to the reply.
get_low_stock(company_id) ==
    LET rows == QueryRows(company_id)
        called == {KeyOf(row) : row \in {x \in rows : Kept(x)}}
    IN \E order \in Orderings(rows), rate \in [called -> Velocities] :
        /\ alert_response' =
            [company_id |-> company_id,
             daily_velocity |-> rate,
             status |-> 200,
             body |-> AlertBody(Alerts(order, rate))]
        /\ UNCHANGED <<storeVars, requestVars>>

AlertInit ==
    /\ \E c \in [AlertProducts -> Companies] :
        products = {CatalogRow(id, c[id]) : id \in AlertProducts}
    /\ inventory \in {T \in UpTo(InventoryRows, MaxRows) : InventoryKeyed(T)}
    /\ sales \in UpTo(SaleRows, MaxRows - Cardinality(inventory))
    /\ supplier_products \in
        UpTo(LinkRows, MaxRows - Cardinality(inventory) - Cardinality(sales))
    /\ next_product_id = 3
    /\ pc = [r \in Requests |-> "idle"]
    /\ tenant = [r \in Requests |-> 1]
    /\ data = [r \in Requests |-> <<>>]
    /\ pending = [r \in Requests |-> {}]
    /\ response = [r \in Requests |-> NoResponse]
    /\ alert_response = NoResponse

AlertNext == \E c \in QueryCompanies : get_low_stock(c)

AlertSpec == AlertInit /\ [][AlertNext]_vars

(***************************************************************************)
(* Properties of create_product                                            *)
(***************************************************************************)
Done(r) == pc[r] = "done"
Created(r) == Done(r) /\ response[r].status = 201
Has(r, f) == f \in DOMAIN data[r]

\* Valid apart from its SKU: every required field, a price that parses, an
\* existing warehouse and a quantity that is absent or not negative.
WellFormed(r) ==
    /\ pc[r] # "idle"
    /\ \A i \in 1..Len(required_fields) : Has(r, required_fields[i])
    /\ data[r]["price"] = "19.99"
    /\ data[r]["warehouse_id"] \in Warehouses
    /\ (Has(r, "initial_quantity") => data[r]["initial_quantity"] >= 0)

InventoryOf(id) == {i \in inventory : i.product_id = id}

\* C1: at every moment the committed store holds, for each request that
\* returned 201, its product row and exactly one inventory row with that
\* product id, the requested warehouse and quantity, and it holds no other
\* product or inventory row: a request that returned 4xx or 500, or that is
\* still inside its transaction, has left nothing behind.
C1_Atomicity ==
    /\ \A p \in products : \E i \in inventory : i.product_id = p.id
    /\ \A i \in inventory : \E p \in products : p.id = i.product_id
    /\ \A r \in Requests : Created(r) =>
        /\ \E p \in products :
            /\ p.id = response[r].product_id
            /\ p.sku = data[r]["sku"]
            /\ p.company_id = tenant[r]
        /\ InventoryOf(response[r].product_id) =
            {[product_id |-> response[r].product_id,
              warehouse_id |-> data[r]["warehouse_id"],
              quantity |-> IF Has(r, "initial_quantity")
                           THEN data[r]["initial_quantity"] ELSE 0]}
    /\ \A r, o \in Requests :
        Created(r) /\ Created(o) /\ r # o =>
            response[r].product_id # response[o].product_id
    /\ Cardinality(products) = Cardinality({r \in Requests : Created(r)})
    /\ Cardinality(inventory) = Cardinality(products)

\* C1 witness: a single request got as far as the inventory INSERT, which
\* failed on a warehouse_id that has no row, and was answered with 500.
C1_Witness ==
    \E r \in Requests :
        /\ Done(r)
        /\ response[r].status = 500
        /\ data[r]["warehouse_id"] \notin Warehouses
        /\ \A o \in Requests \ {r} : pc[o] = "idle"
        /\ next_product_id = 2
        /\ products = {}

SameKey(a, b) ==
    /\ tenant[a] = tenant[b]
    /\ Has(a, "sku") /\ Has(b, "sku")
    /\ data[a]["sku"] = data[b]["sku"]

CarriesSku(r, sku) == pc[r] # "idle" /\ Has(r, "sku") /\ data[r]["sku"] = sku

C3_CompanyScoped ==
    /\ \A r \in Requests :
        Done(r) /\ response[r].status = 409 =>
            \E p \in products :
                p.sku = data[r]["sku"] /\ p.company_id = tenant[r]
    /\ \A p, q \in products :
        p.company_id = q.company_id /\ p.sku = q.sku => p = q

RequiredReply(r) ==
    IF ~Has(r, "name") THEN Error(400, "name is required")
    ELSE IF ~Has(r, "sku") THEN Error(400, "sku is required")
    ELSE IF ~Has(r, "price") THEN Error(400, "price is required")
    ELSE Error(400, "warehouse_id is required")

Incomplete(r) ==
    /\ pc[r] # "idle"
    /\ \E f \in {"name", "sku", "price", "warehouse_id"} : ~Has(r, f)

C4_Reply ==
    \A r \in Requests :
        Incomplete(r) => Done(r) /\ response[r] = RequiredReply(r)

C4_NoWrite ==
    \A r \in Requests :
        pc[r] = "idle" /\ Incomplete(r)' =>
            /\ UNCHANGED <<storeVars, pending>>
            /\ Done(r)'

\* C4: a request that lacks a required field is answered at once with 400
\* and "<field> is required" for the first missing field in the order name,
\* sku, price, warehouse_id, whatever else is wrong with it, and the step
\* that answers it changes neither the store nor any open transaction.
C4_RequiredFirst == [] C4_Reply /\ [][C4_NoWrite]_vars

\* C4 witness: a body without a name whose SKU is already in the store,
\* whose price does not parse and whose quantity is negative.
C4_Witness ==
    \E r \in Requests :
        /\ Done(r)
        /\ DOMAIN data[r] = {"sku", "price", "warehouse_id", "initial_quantity"}
        /\ response[r] = Error(400, "name is required")
        /\ \E p \in products : p.sku = data[r]["sku"]
        /\ data[r]["price"] = "abc"
        /\ data[r]["initial_quantity"] < 0

NegativeQuantity(r) ==
    /\ pc[r] # "idle"
    /\ ~Incomplete(r)
    /\ data[r]["price"] = "19.99"
    /\ Has(r, "initial_quantity")
    /\ data[r]["initial_quantity"] < 0

C5_State ==
    /\ \A i \in inventory : i.quantity >= 0
    /\ \A r \in Requests :
        Created(r) /\ ~Has(r, "initial_quantity") =>
            /\ InventoryOf(response[r].product_id) # {}
            /\ \A i \in InventoryOf(response[r].product_id) : i.quantity = 0
    /\ \A r \in Requests :
        NegativeQuantity(r) =>
            /\ Done(r)
            /\ pending[r] = {}
            /\ response[r].status \in {400, 409}
            /\ response[r].status = 400 =>
                response[r].error = "Initial quantity cannot be negative"

C5_NoWrite ==
    \A r \in Requests :
        pc[r] = "idle" /\ NegativeQuantity(r)' =>
            /\ UNCHANGED <<storeVars, pending>>
            /\ Done(r)'

\* C5: a request without initial_quantity that succeeds stores quantity 0;
\* a request that passes the required-field, SKU and price checks with a
\* negative initial_quantity is answered 400 "Initial quantity cannot be
\* negative" by a step that writes nothing; no inventory row is negative.
C5_Quantity == [] C5_State /\ [][C5_NoWrite]_vars

\* C5 witness: one request created its product with the default quantity,
\* another was turned down for its negative quantity.
C5_Witness ==
    \E a, b \in Requests :
        /\ Created(a) /\ ~Has(a, "initial_quantity")
        /\ [product_id |-> response[a].product_id,
            warehouse_id |-> data[a]["warehouse_id"],
            quantity |-> 0] \in inventory
        /\ NegativeQuantity(b)
        /\ response[b] = Error(400, "Initial quantity cannot be negative")

(***************************************************************************)
(* Properties of get_low_stock                                             *)
(***************************************************************************)
Answered == alert_response # NoResponse
AlertList == alert_response.body.alerts
AlertKey(a) == <<a.product_id, a.warehouse_id>>
AlertKeys == {AlertKey(AlertList[k]) : k \in 1..Len(AlertList)}

\* The (product, warehouse) pairs of a company that are at or below the
\* product's threshold and were sold within the last 30 days.
Qualifying(company) ==
    {<<p.id, w>> : p \in {x \in products : x.company_id = company},
                   w \in Warehouses} \cap
    {k \in AlertProducts \X Warehouses :
        /\ \E i \in inventory, p \in products :
            /\ p.id = k[1]
            /\ i.product_id = k[1] /\ i.warehouse_id = k[2]
            /\ i.quantity <= p.low_stock_threshold
        /\ \E s \in sales :
            s.product_id = k[1] /\ s.warehouse_id = k[2] /\ s.days_ago <= 30}

Unsupplied(product_id) ==
    \A l \in supplier_products : l.product_id # product_id

\* C6 (as claimed): the alerts of a call cover exactly the pairs of the
\* company whose inventory row is at or below the product's threshold and
\* that have a sale dated within the last 30 days, boundary day included.
C6_ExactCover ==
    Answered => AlertKeys = Qualifying(alert_response.company_id)

\* C7: in every alert days_until_stockout is the floor of current_stock /
\* velocity when the velocity returned for the pair is positive, that is
\* days * velocity <= stock < (days + 1) * velocity, and it is 99 when the
\* velocity is 0; stock 100 at velocity 10 gives 10, stock 5 at velocity 0
\* gives 99.
C7_DaysUntilStockout ==
    Answered =>
        \A k \in 1..Len(AlertList) :
            LET a == AlertList[k]
                v == alert_response.daily_velocity[AlertKey(a)]
                n == v[1]
                d == v[2]
            IN /\ n > 0 =>
                    /\ a.days_until_stockout * n <= a.current_stock * d
                    /\ a.current_stock * d < (a.days_until_stockout + 1) * n
               /\ n = 0 => a.days_until_stockout = 99
               /\ a.current_stock = 100 /\ v = <<10, 1>> =>
                    a.days_until_stockout = 10
               /\ a.current_stock = 5 /\ v = <<0, 1>> =>
                    a.days_until_stockout = 99

\* C7 witness: one reply with both cases, stock 100 at velocity 10 and
\* stock 5 at velocity 0.
C7_Witness ==
    /\ Answered
    /\ \E j, k \in 1..Len(AlertList) :
        /\ AlertList[j].current_stock = 100
        /\ alert_response.daily_velocity[AlertKey(AlertList[j])] = <<10, 1>>
        /\ AlertList[j].days_until_stockout = 10
        /\ AlertList[k].current_stock = 5
        /\ alert_response.daily_velocity[AlertKey(AlertList[k])] = <<0, 1>>
        /\ AlertList[k].days_until_stockout = 99

\* C8: every call is answered 200 with total_alerts equal to the length of
\* alerts; a company without a qualifying pair, and a company id that no
\* product carries, get alerts = [] and total_alerts = 0.
C8_CountAndEmpty ==
    Answered =>
        /\ alert_response.status = 200
        /\ alert_response.body.total_alerts = Len(AlertList)
        /\ (\/ Qualifying(alert_response.company_id) = {}
            \/ \A p \in products : p.company_id # alert_response.company_id)
           => /\ AlertList = <<>>
              /\ alert_response.body.total_alerts = 0

\* C8 witness: the call was made for a company id without row and came back
\* empty, while another company of the same store has a pair that is low on
\* stock, recently sold and supplied.
C8_Witness ==
    /\ Answered
    /\ alert_response.company_id \notin Companies
    /\ alert_response.status = 200
    /\ AlertList = <<>>
    /\ \E c \in Companies : \E k \in Qualifying(c) : ~Unsupplied(k[1])

\* C9: a product without any supplier never breaks the call and is treated
\* by one rule in every call over every store content: it is left out of
\* the alerts, also where it is low on stock and recently sold.
C9_UnsuppliedExcluded ==
    Answered =>
        /\ alert_response.status = 200
        /\ \A k \in 1..Len(AlertList) :
            /\ ~Unsupplied(AlertList[k].product_id)
            /\ AlertList[k].supplier.id \in Suppliers

\* C9 witness: the company asked for has a pair that is low on stock and
\* recently sold, whose product has no supplier; the reply, which lists
\* another product of that company, leaves it out.
C9_Witness ==
    /\ Answered
    /\ \E k \in Qualifying(alert_response.company_id) :
        /\ Unsupplied(k[1])
        /\ k \notin AlertKeys
    /\ AlertList # <<>>

\* C10 (as claimed): a (product, warehouse) pair occurs in at most one alert
\* of a reply, however many suppliers the product is linked to.
C10_OneAlertPerPair ==
    Answered =>
        \A j, k \in 1..Len(AlertList) :
            AlertKey(AlertList[j]) = AlertKey(AlertList[k]) => j = k

====
